---- MODULE Spec2Model ----
(***************************************************************************)
(* Model of the LACT daemon's hardware monitor (daemon/src/hw_mon.rs):     *)
(* the hwmon control files, the sensor reads, the power cap, and the fan   *)
(* control loop thread with its shared enabled flag and fan curve.         *)
(*                                                                         *)
(* File contents are sequences of one-character strings, so that trim(),   *)
(* parse::<i64>() and to_string() are computed and not assumed.            *)
(* Curve percentages are f64 in the source; the model keeps them as exact  *)
(* rationals (numerator, denominator) over integer curve points.           *)
(***************************************************************************)
EXTENDS Integers, Sequences, FiniteSets, TLC

\* ------------------------------------------------------------------ bounds

\* Number of thread slots for loop workers (threads alive at the same time).
MaxWorkers == 2

MaxHandlers == 2

Workers == 1..MaxWorkers

\* ------------------------------------------------------------ text helpers

IsWs(c) == c \in {" ", "\n", "\t", "\r"}

IsDigit(c) == c \in {"0", "1", "2", "3", "4", "5", "6", "7", "8", "9"}

DigitVal(c) ==
  CASE c = "0" -> 0 [] c = "1" -> 1 [] c = "2" -> 2 [] c = "3" -> 3
    [] c = "4" -> 4 [] c = "5" -> 5 [] c = "6" -> 6 [] c = "7" -> 7
    [] c = "8" -> 8 [] c = "9" -> 9

DigitChar(d) == <<"0", "1", "2", "3", "4", "5", "6", "7", "8", "9">>[d + 1]

SetMin(S) == CHOOSE m \in S : \A x \in S : m <= x

SetMax(S) == CHOOSE m \in S : \A x \in S : x <= m

\* str::trim: the text between its first and its last non-whitespace character
Trim(s) ==
  LET keep == {i \in 1..Len(s) : ~IsWs(s[i])}
  IN IF keep = {} THEN <<>> ELSE SubSeq(s, SetMin(keep), SetMax(keep))

\* The number a string of decimal digits denotes, read left to right.
DigitsVal(d) ==
  LET acc[i \in 0..Len(d)] == IF i = 0 THEN 0 ELSE acc[i - 1] * 10 + DigitVal(d[i])
  IN acc[Len(d)]

\* str::parse::<i64>: an optional sign and at least one digit, nothing else.
ParseI64(s) ==
  LET signed == s # <<>> /\ Head(s) \in {"-", "+"}
      neg == s # <<>> /\ Head(s) = "-"
      d == IF signed THEN Tail(s) ELSE s
  IN IF d = <<>> \/ (\E i \in 1..Len(d) : ~IsDigit(d[i]))
     THEN [ok |-> FALSE, val |-> 0]
     ELSE [ok |-> TRUE, val |-> IF neg THEN 0 - DigitsVal(d) ELSE DigitsVal(d)]

RECURSIVE NatDigits(_)
NatDigits(n) ==
  IF n < 10 THEN <<DigitChar(n)>>
  ELSE Append(NatDigits(n \div 10), DigitChar(n % 10))

\* i64::to_string
I64ToString(n) == IF n < 0 THEN <<"-">> \o NatDigits(0 - n) ELSE NatDigits(n)

\* Rust's integer division: the quotient truncated toward zero (b > 0).
TruncDiv(a, b) == IF a >= 0 THEN a \div b ELSE 0 - ((0 - a) \div b)

\* --------------------------------------------------------------- state

VARIABLES
  files,        \* the hwmon directory: file name -> result of fs::read_to_string
  fan_control,  \* HWMon.fan_control: the shared enabled flag
  fan_curve,    \* HWMon.fan_curve: the shared curve, entries in key order
  pc,           \* position of each loop worker thread
  last,         \* the last call made on the monitor and what it returned
  repeated,     \* whether that call and its result repeated the call before it
  late,         \* per worker: ticks executed since the flag was last cleared
  calls,        \* per handler thread: the call it is in the middle of
  snapshot,     \* the (flag, curve) pair the last get_fan_control returned
  config,       \* the Config held in memory
  config_file,  \* the file at config_path: result of fs::read_to_string
  loaded,       \* what the last Config::read_from_file returned
  compared      \* the last two GpuIdentifiers compared with == and the result

\* The state of config.rs, and that of hw_mon.rs.
confVars == <<config, config_file, loaded, compared>>

monVars == <<files, fan_control, fan_curve, pc, last, repeated, late, calls, snapshot>>

vars == <<files, fan_control, fan_curve, pc, last, repeated, late, calls, snapshot, confVars>>

\* Threads that call the monitor: the daemon's connection handlers.
Handlers == 1..MaxHandlers

\* A handler that is in no call.
Idle == [op |-> "none", at |-> "idle", curve |-> <<>>, n |-> 0]

NoCalls == [h \in Handlers |-> Idle]

NoSnapshot == [taken |-> FALSE, enabled |-> FALSE, curve |-> <<>>]

FileNames ==
  {"fan1_max", "fan1_input", "freq1_input", "freq2_input", "temp1_input",
   "in0_input", "power1_cap_max", "power1_cap", "power1_average",
   "pwm1", "pwm1_enable"}

\* fs::read_to_string results
NoFile == [ok |-> FALSE, text |-> <<>>]

File(text) == [ok |-> TRUE, text |-> text]

\* Option<T>: None is the empty sequence, Some(v) the sequence of v alone.
OptNone == <<>>

OptSome(v) == <<v>>

\* Config::new(config_path)
ConfigNew(config_path) ==
  [gpu_configs |-> <<>>, allow_online_update |-> OptNone,
   config_path |-> config_path, group |-> "wheel"]

NotLoaded == [kind |-> "none"]

NotCompared == [done |-> FALSE]

\* A daemon that has a fresh Config, no config file, and has compared nothing.
InitConfig ==
  /\ config = ConfigNew("/etc/lact.json")
  /\ config_file = NoFile
  /\ loaded = NotLoaded
  /\ compared = NotCompared

\* A worker thread that was never spawned, has returned, or has panicked.
Alive(w) == pc[w] # "none"

AliveWorkers == {w \in Workers : Alive(w)}

\* The read guard kept until the sleep has ended.
ReadersAsleep == {w \in Workers : pc[w] \in {"body", "drop", "sleep"}}

\* Workers holding the RwLock read guard (from read() to drop(curve)).
Readers == {w \in Workers : pc[w] \in {"body", "drop"}}

\* A handler holds the RwLock write guard (from write() to the end of
\* set_fan_curve).
WriteLocked == \E h \in Handlers : calls[h].at \in {"clear", "insert"}

\* ------------------------------------------------------------ sensor reads

\* Option<i64>, or the panic of parse().unwrap()
None == [kind |-> "None", val |-> 0]

Some(v) == [kind |-> "Some", val |-> v]

Panic == [kind |-> "panic", val |-> 0]

\* match fs::read_to_string(f) { Ok(s) => Some(s.trim().parse().unwrap()), _ => None }
ReadParsed(f) ==
  IF ~files[f].ok THEN None
  ELSE LET p == CHOOSE r \in {ParseI64(t) : t \in {Trim(files[f].text)}} : TRUE
       IN IF p.ok THEN Some(p.val) ELSE Panic

\* The reading handed on as it was parsed, without the division.
Unscaled(r, d) == r

\* The integer division a getter applies to its reading: v / d
Scale(r, d) == IF r.kind = "Some" THEN Some(TruncDiv(r.val, d)) ELSE r

get_fan_max_speed == ReadParsed("fan1_max")

get_fan_speed == ReadParsed("fan1_input")

get_mem_freq == Scale(Scale(ReadParsed("freq2_input"), 1000), 1000)

get_gpu_freq == Scale(Scale(ReadParsed("freq1_input"), 1000), 1000)

get_gpu_temp == Scale(ReadParsed("temp1_input"), 1000)

get_voltage == ReadParsed("in0_input")

get_power_cap_max == Scale(ReadParsed("power1_cap_max"), 1000000)

get_power_cap == Scale(ReadParsed("power1_cap"), 1000000)

get_power_avg == Scale(ReadParsed("power1_average"), 1000000)

\* --------------------------------------------------------------- the curve

\* A BTreeMap<i64, f64> is the sequence of its entries <<temperature, percent>>
\* in ascending order of temperature, which is what iter() yields.

\* curve.range(from..): the entries whose key is >= from
Range(curve, from) == SelectSeq(curve, LAMBDA e : e[1] >= from)

\* Iterator::nth(n), n counted from 0
Nth(seq, n) ==
  IF Len(seq) > n THEN [some |-> TRUE, entry |-> seq[n + 1]]
  ELSE [some |-> FALSE, entry |-> <<0, 0>>]

\* The ratio taken from zero degrees instead of from the lower key.
SpeedRatioFromZero(temp, t_low, t_high) == [num |-> temp, den |-> t_high - t_low]

\* (temp - t_low) as f64 / (t_high - t_low) as f64, kept as a fraction
SpeedRatio(temp, t_low, t_high) == [num |-> temp - t_low, den |-> t_high - t_low]

\* The interpolation run from the upper point downwards.
SpeedPercentFromHigh(s_low, s_high, ratio) ==
  [num |-> s_high * ratio.den - (s_high - s_low) * ratio.num, den |-> ratio.den]

\* s_low + ((s_high - s_low) * speed_ratio), over the ratio's denominator
SpeedPercent(s_low, s_high, ratio) ==
  [num |-> s_low * ratio.den + (s_high - s_low) * ratio.num, den |-> ratio.den]

\* The duty value rounded to the nearest integer instead of cast.
PwmOfRounded(percent) ==
  (2 * 255 * percent.num + 100 * percent.den) \div (2 * 100 * percent.den)

\* (255f64 * (speed_percent / 100f64)) as i64: the cast truncates toward zero
PwmOf(percent) == TruncDiv(255 * percent.num, 100 * percent.den)

\* The range with its upper end included.
InRangeInclusive(temp, t_low, t_high) == t_low <= temp /\ temp <= t_high

\* (t_low..t_high).contains(&temp)
InRange(temp, t_low, t_high) == t_low <= temp /\ temp < t_high

\* The match in the loop body for the i-th entry (t_low, s_low): there is a next
\* entry (t_high, s_high) and the range between the two keys holds temp.
Matches(curve, temp, i) ==
  \E high \in {Nth(Range(curve, curve[i][1]), 1)} :
    high.some /\ InRange(temp, curve[i][1], high.entry[1])

\* The pwm computed in the loop body for the i-th entry and the one after it.
PwmAt(curve, temp, i) ==
  LET high == Nth(Range(curve, curve[i][1]), 1).entry
  IN PwmOf(SpeedPercent(curve[i][2], high[2], SpeedRatio(temp, curve[i][1], high[1])))

\* The for loop over curve.iter(): the first entry that matches gives the pwm
\* to write and the break ends the loop.
Scan(curve, temp) ==
  LET loop[i \in 1..(Len(curve) + 1)] ==
        IF i > Len(curve) THEN [hit |-> FALSE, pwm |-> 0]
        ELSE IF Matches(curve, temp, i) THEN [hit |-> TRUE, pwm |-> PwmAt(curve, temp, i)]
        ELSE loop[i + 1]
  IN loop[1]

\* BTreeMap::insert: the entry takes its place in key order, replacing an entry
\* of the same key.
Insert(m, k, v) ==
  SelectSeq(m, LAMBDA e : e[1] < k) \o <<<<k, v>>>> \o SelectSeq(m, LAMBDA e : e[1] > k)

\* The entries inserted into the map as it stands, without clear().
Merged(curve) ==
  LET filled[i \in 0..Len(curve)] ==
        IF i = 0 THEN fan_curve ELSE Insert(filled[i - 1], curve[i][1], curve[i][2])
  IN filled[Len(curve)]

\* current.clear(); for (k, v) in curve.iter() { current.insert(k, v) }
Replaced(curve) ==
  LET filled[i \in 0..Len(curve)] ==
        IF i = 0 THEN <<>> ELSE Insert(filled[i - 1], curve[i][1], curve[i][2])
  IN filled[Len(curve)]

\* ------------------------------------------------------------ the monitor

Returned(op, res) == [op |-> op, res |-> res, val |-> 0]

\* A call returns to its caller.
ReturnValue(r) == last' = r /\ repeated' = (last = r)

Return(op, res) == ReturnValue(Returned(op, res))

\* fs::write(path, text) that succeeds
Written(f, text) == [files EXCEPT ![f] = File(text)]

FreeSlots == {w \in Workers : ~Alive(w)}

\* start_fan_control; wok: whether the write to pwm1_enable succeeds.
start_fan_control(wok) ==
  IF fan_control
  THEN /\ Return("start_fan_control", "Ok")
       /\ UNCHANGED <<files, fan_control, fan_curve, pc, late, calls, snapshot, confVars>>
  ELSE /\ fan_control' = TRUE
       /\ late' = [w \in Workers |-> 0]
       /\ UNCHANGED <<fan_curve, calls, snapshot, confVars>>
       /\ IF wok
          THEN /\ FreeSlots # {}
               /\ files' = Written("pwm1_enable", <<"1">>)
               /\ pc' = [pc EXCEPT ![SetMin(FreeSlots)] = "check"]
               /\ Return("start_fan_control", "Ok")
          ELSE /\ Return("start_fan_control", "PermissionDenied")
               /\ UNCHANGED <<files, pc>>

\* stop_fan_control clearing the flag before it knows whether the write succeeded.
stop_fan_control_eager(wok) ==
  /\ fan_control' = FALSE
  /\ UNCHANGED <<fan_curve, pc, late, calls, snapshot, confVars>>
  /\ IF wok
     THEN /\ files' = Written("pwm1_enable", <<"2">>)
          /\ Return("stop_fan_control", "Ok")
     ELSE /\ Return("stop_fan_control", "PermissionDenied")
          /\ UNCHANGED files

\* stop_fan_control; wok: whether the write to pwm1_enable succeeds.
stop_fan_control(wok) ==
  IF wok
  THEN /\ files' = Written("pwm1_enable", <<"2">>)
       /\ fan_control' = FALSE
       /\ Return("stop_fan_control", "Ok")
       /\ UNCHANGED <<fan_curve, pc, late, calls, snapshot, confVars>>
  ELSE /\ Return("stop_fan_control", "PermissionDenied")
       /\ UNCHANGED <<files, fan_control, fan_curve, pc, late, calls, snapshot, confVars>>

\* set_fan_curve that also turns fan control on for the new curve.
set_fan_curve_enabling(curve) ==
  /\ Readers = {}
  /\ fan_curve' = Replaced(curve)
  /\ fan_control' = TRUE
  /\ Return("set_fan_curve", "Ok")
  /\ UNCHANGED <<files, pc, late, calls, snapshot, confVars>>

\* set_fan_curve: write() waits until no worker holds a read guard; the map is
\* cleared and refilled before the write guard is released.
set_fan_curve(curve) ==
  /\ Readers = {}
  /\ fan_curve' = Replaced(curve)
  /\ Return("set_fan_curve", "Ok")
  /\ UNCHANGED <<files, fan_control, pc, late, calls, snapshot, confVars>>

\* set_power_cap; wok: whether the write to power1_cap succeeds. The ? on
\* get_power_cap_max() returns Unsupported for None; its unwrap panics first
\* when the file does not parse.
set_power_cap(cap, wok) ==
  /\ UNCHANGED <<fan_control, fan_curve, pc, late, calls, snapshot, confVars>>
  /\ IF get_power_cap_max.kind = "panic"
     THEN /\ Return("set_power_cap", "panic")
          /\ UNCHANGED files
     ELSE IF get_power_cap_max.kind = "None"
     THEN /\ Return("set_power_cap", "Unsupported")
          /\ UNCHANGED files
     ELSE IF cap > get_power_cap_max.val
     THEN /\ Return("set_power_cap", "InvalidValue")
          /\ UNCHANGED files
     ELSE IF wok
     THEN /\ files' = Written("power1_cap", I64ToString(cap * 1000000))
          /\ Return("set_power_cap", "Ok")
     ELSE /\ Return("set_power_cap", "PermissionDenied")
          /\ UNCHANGED files

GetterNames ==
  {"get_fan_max_speed", "get_fan_speed", "get_mem_freq", "get_gpu_freq",
   "get_gpu_temp", "get_voltage", "get_power_cap_max", "get_power_cap",
   "get_power_avg"}

GetterResult(g) ==
  CASE g = "get_fan_max_speed" -> get_fan_max_speed
    [] g = "get_fan_speed" -> get_fan_speed
    [] g = "get_mem_freq" -> get_mem_freq
    [] g = "get_gpu_freq" -> get_gpu_freq
    [] g = "get_gpu_temp" -> get_gpu_temp
    [] g = "get_voltage" -> get_voltage
    [] g = "get_power_cap_max" -> get_power_cap_max
    [] g = "get_power_cap" -> get_power_cap
    [] g = "get_power_avg" -> get_power_avg

\* The control file each getter reads.
GetterFile(g) ==
  CASE g = "get_fan_max_speed" -> "fan1_max"
    [] g = "get_fan_speed" -> "fan1_input"
    [] g = "get_mem_freq" -> "freq2_input"
    [] g = "get_gpu_freq" -> "freq1_input"
    [] g = "get_gpu_temp" -> "temp1_input"
    [] g = "get_voltage" -> "in0_input"
    [] g = "get_power_cap_max" -> "power1_cap_max"
    [] g = "get_power_cap" -> "power1_cap"
    [] g = "get_power_avg" -> "power1_average"

\* A caller reads one sensor.
CallGetter(g) ==
  /\ ReturnValue([op |-> g, res |-> GetterResult(g).kind, val |-> GetterResult(g).val])
  /\ UNCHANGED <<files, fan_control, fan_curve, pc, late, calls, snapshot, confVars>>

\* ------------------------------------------------------- the loop worker

\* The loop condition taken as true without loading the flag.
WorkerCheckBlind(w) ==
  /\ pc[w] = "check"
  /\ pc' = [pc EXCEPT ![w] = "lock"]
  /\ UNCHANGED <<files, fan_control, fan_curve, last, repeated, late, calls, snapshot, confVars>>

\* while s.fan_control.load(SeqCst): the closure returns when the flag is clear
WorkerCheck(w) ==
  /\ pc[w] = "check"
  /\ pc' = [pc EXCEPT ![w] = IF fan_control THEN "lock" ELSE "none"]
  /\ UNCHANGED <<files, fan_control, fan_curve, last, repeated, late, calls, snapshot, confVars>>

\* The read guard taken although a writer holds the lock.
WorkerLockBarging(w) ==
  /\ pc[w] = "lock"
  /\ pc' = [pc EXCEPT ![w] = "body"]
  /\ UNCHANGED <<files, fan_control, fan_curve, last, repeated, late, calls, snapshot, confVars>>

\* let curve = s.fan_curve.read().unwrap(): read() waits while a writer holds
\* the lock
WorkerLock(w) ==
  /\ pc[w] = "lock"
  /\ ~WriteLocked
  /\ pc' = [pc EXCEPT ![w] = "body"]
  /\ UNCHANGED <<files, fan_control, fan_curve, last, repeated, late, calls, snapshot, confVars>>

\* One tick under the read guard: get_gpu_temp().unwrap(), the scan of the
\* curve and the write of pwm1 (wok: whether that write succeeds). The unwrap
\* of an absent or unparsable temperature and the expect of a failed write
\* panic; the panic unwinds the thread, which drops the guard.
WorkerBody(w, wok) ==
  /\ pc[w] = "body"
  /\ late' = [late EXCEPT ![w] = IF fan_control THEN @ ELSE IF @ < 2 THEN @ + 1 ELSE @]
  /\ UNCHANGED <<fan_control, fan_curve, last, repeated, calls, snapshot, confVars>>
  /\ \E temp \in {get_gpu_temp} :
       IF temp.kind # "Some"
       THEN /\ pc' = [pc EXCEPT ![w] = "none"]
            /\ UNCHANGED files
       ELSE \E found \in {Scan(fan_curve, temp.val)} :
              IF ~found.hit
              THEN /\ pc' = [pc EXCEPT ![w] = "drop"]
                   /\ UNCHANGED files
              ELSE IF wok
              THEN /\ files' = Written("pwm1", I64ToString(found.pwm))
                   /\ pc' = [pc EXCEPT ![w] = "drop"]
              ELSE /\ pc' = [pc EXCEPT ![w] = "none"]
                   /\ UNCHANGED files

\* drop(curve)
WorkerDrop(w) ==
  /\ pc[w] = "drop"
  /\ pc' = [pc EXCEPT ![w] = "sleep"]
  /\ UNCHANGED <<files, fan_control, fan_curve, last, repeated, late, calls, snapshot, confVars>>

\* thread::sleep(Duration::from_millis(1000)) returns
WorkerWake(w) ==
  /\ pc[w] = "sleep"
  /\ pc' = [pc EXCEPT ![w] = "check"]
  /\ UNCHANGED <<files, fan_control, fan_curve, last, repeated, late, calls, snapshot, confVars>>

WorkerStep(w) ==
  \/ WorkerCheck(w)
  \/ WorkerLock(w)
  \/ \E wok \in BOOLEAN : WorkerBody(w, wok)
  \/ WorkerDrop(w)
  \/ WorkerWake(w)

\* The hardware (or anything else) changes what a control file reads as.
EnvSetFile(f, content) ==
  /\ files[f] # content
  /\ files' = [files EXCEPT ![f] = content]
  /\ UNCHANGED <<fan_control, fan_curve, pc, last, repeated, late, calls, snapshot, confVars>>

\* ------------------------------------------------- the handler threads

\* get_fan_control: the flag and a clone of the curve taken under a read guard
get_fan_control ==
  /\ ~WriteLocked
  /\ snapshot' = [taken |-> TRUE, enabled |-> fan_control, curve |-> fan_curve]
  /\ Return("get_fan_control", "Ok")
  /\ UNCHANGED <<files, fan_control, fan_curve, pc, late, calls, confVars>>

\* set_fan_curve step by step, as its readers can meet it.
\* A handler enters set_fan_curve(curve).
SetCurveCall(h, curve) ==
  /\ calls[h] = Idle
  /\ calls' = [calls EXCEPT ![h] = [op |-> "set_fan_curve", at |-> "write", curve |-> curve, n |-> 0]]
  /\ UNCHANGED <<files, fan_control, fan_curve, pc, last, repeated, late, snapshot, confVars>>

\* self.fan_curve.write().unwrap(): granted when no guard is held
SetCurveWrite(h) ==
  /\ calls[h].op = "set_fan_curve"
  /\ calls[h].at = "write"
  /\ Readers = {}
  /\ ~WriteLocked
  /\ calls' = [calls EXCEPT ![h].at = "clear"]
  /\ UNCHANGED <<files, fan_control, fan_curve, pc, last, repeated, late, snapshot, confVars>>

\* current.clear()
SetCurveClear(h) ==
  /\ calls[h].at = "clear"
  /\ fan_curve' = <<>>
  /\ calls' = [calls EXCEPT ![h].at = "insert"]
  /\ UNCHANGED <<files, fan_control, pc, last, repeated, late, snapshot, confVars>>

\* one turn of for (k, v) in curve.iter() { current.insert(k, v) }
SetCurveInsert(h) ==
  /\ calls[h].at = "insert"
  /\ calls[h].n < Len(calls[h].curve)
  /\ fan_curve' = Insert(fan_curve, calls[h].curve[calls[h].n + 1][1],
                                    calls[h].curve[calls[h].n + 1][2])
  /\ calls' = [calls EXCEPT ![h].n = @ + 1]
  /\ UNCHANGED <<files, fan_control, pc, last, repeated, late, snapshot, confVars>>

\* the loop is over: the write guard is dropped and the call returns
SetCurveReturn(h) ==
  /\ calls[h].at = "insert"
  /\ calls[h].n = Len(calls[h].curve)
  /\ calls' = [calls EXCEPT ![h] = Idle]
  /\ Return("set_fan_curve", "Ok")
  /\ UNCHANGED <<files, fan_control, fan_curve, pc, late, snapshot, confVars>>

SetCurveStep(h) ==
  \/ SetCurveWrite(h)
  \/ SetCurveClear(h)
  \/ SetCurveInsert(h)
  \/ SetCurveReturn(h)

\* start_fan_control and stop_fan_control step by step, as concurrent callers
\* can meet each other: neither takes a lock, the flag is an atomic.
StartCall(h) ==
  /\ calls[h] = Idle
  /\ calls' = [calls EXCEPT ![h] = [op |-> "start_fan_control", at |-> "load", curve |-> <<>>, n |-> 0]]
  /\ UNCHANGED <<files, fan_control, fan_curve, pc, last, repeated, late, snapshot, confVars>>

\* if self.fan_control.load(SeqCst) { return Ok(()) }
StartLoad(h) ==
  /\ calls[h].op = "start_fan_control"
  /\ calls[h].at = "load"
  /\ IF fan_control
     THEN /\ calls' = [calls EXCEPT ![h] = Idle]
          /\ Return("start_fan_control", "Ok")
     ELSE /\ calls' = [calls EXCEPT ![h].at = "store"]
          /\ UNCHANGED <<last, repeated>>
  /\ UNCHANGED <<files, fan_control, fan_curve, pc, late, snapshot, confVars>>

\* self.fan_control.store(true, SeqCst)
StartStore(h) ==
  /\ calls[h].op = "start_fan_control"
  /\ calls[h].at = "store"
  /\ fan_control' = TRUE
  /\ late' = [w \in Workers |-> 0]
  /\ calls' = [calls EXCEPT ![h].at = "write"]
  /\ UNCHANGED <<files, fan_curve, pc, last, repeated, snapshot, confVars>>

\* match fs::write(pwm1_enable, "1") { Ok => { thread::spawn(..); Ok(()) },
\* Err => Err(PermissionDenied) }
StartWrite(h, wok) ==
  /\ calls[h].op = "start_fan_control"
  /\ calls[h].at = "write"
  /\ calls' = [calls EXCEPT ![h] = Idle]
  /\ IF wok
     THEN /\ FreeSlots # {}
          /\ files' = Written("pwm1_enable", <<"1">>)
          /\ pc' = [pc EXCEPT ![SetMin(FreeSlots)] = "check"]
          /\ Return("start_fan_control", "Ok")
     ELSE /\ Return("start_fan_control", "PermissionDenied")
          /\ UNCHANGED <<files, pc>>
  /\ UNCHANGED <<fan_control, fan_curve, late, snapshot, confVars>>

StopCall(h) ==
  /\ calls[h] = Idle
  /\ calls' = [calls EXCEPT ![h] = [op |-> "stop_fan_control", at |-> "write", curve |-> <<>>, n |-> 0]]
  /\ UNCHANGED <<files, fan_control, fan_curve, pc, last, repeated, late, snapshot, confVars>>

\* match fs::write(pwm1_enable, "2") { Ok => .., Err => Err(PermissionDenied) }
StopWrite(h, wok) ==
  /\ calls[h].op = "stop_fan_control"
  /\ calls[h].at = "write"
  /\ IF wok
     THEN /\ files' = Written("pwm1_enable", <<"2">>)
          /\ calls' = [calls EXCEPT ![h].at = "store"]
          /\ UNCHANGED <<last, repeated>>
     ELSE /\ calls' = [calls EXCEPT ![h] = Idle]
          /\ Return("stop_fan_control", "PermissionDenied")
          /\ UNCHANGED files
  /\ UNCHANGED <<fan_control, fan_curve, pc, late, snapshot, confVars>>

\* self.fan_control.store(false, SeqCst); Ok(())
StopStore(h) ==
  /\ calls[h].op = "stop_fan_control"
  /\ calls[h].at = "store"
  /\ fan_control' = FALSE
  /\ calls' = [calls EXCEPT ![h] = Idle]
  /\ Return("stop_fan_control", "Ok")
  /\ UNCHANGED <<files, fan_curve, pc, late, snapshot, confVars>>

StartStopStep(h) ==
  \/ StartLoad(h)
  \/ StartStore(h)
  \/ \E wok \in BOOLEAN : StartWrite(h, wok)
  \/ \E wok \in BOOLEAN : StopWrite(h, wok)
  \/ StopStore(h)

\* ------------------------------------------------------------ input sets

DefaultCurve == <<<<20, 0>>, <<40, 0>>, <<60, 50>>, <<80, 80>>, <<100, 100>>>>

EmptyCurve == <<>>

SinglePointCurve == <<<<50, 30>>>>

DescendingCurve == <<<<30, 100>>, <<70, 20>>>>

ColdCurve == <<<<-10, 20>>, <<10, 45>>, <<60, 45>>>>

NegativeCurve == <<<<0, -10>>, <<50, 10>>>>

Temp70 == File(<<"7", "0", "0", "0", "0", "\n">>)

Garbage == File(<<"n", "/", "a", "\n">>)

\* The directory of a device that exposes a temperature and a fan, fan in
\* automatic mode, as the monitor finds it.
BaseFiles ==
  [f \in FileNames |->
     CASE f = "temp1_input" -> Temp70
       [] f = "pwm1" -> File(<<"0", "\n">>)
       [] f = "pwm1_enable" -> File(<<"2", "\n">>)
       [] OTHER -> NoFile]

\* ------------------------------------------------ fan control life cycle

LifeTemps == {Temp70, NoFile, Garbage}

LifeCurves == {DefaultCurve, DescendingCurve}

\* HWMon::new(path, false, curve, None)
Init ==
  /\ files = BaseFiles
  /\ fan_control = FALSE
  /\ fan_curve \in LifeCurves
  /\ pc = [w \in Workers |-> "none"]
  /\ last = Returned("new", "Ok")
  /\ repeated = FALSE
  /\ late = [w \in Workers |-> 0]
  /\ calls = NoCalls
  /\ snapshot = NoSnapshot
  /\ InitConfig

Next ==
  \/ \E wok \in BOOLEAN : start_fan_control(wok)
  \/ \E wok \in BOOLEAN : stop_fan_control(wok)
  \/ \E curve \in LifeCurves : set_fan_curve(curve)
  \/ \E w \in Workers : WorkerStep(w)
  \/ \E content \in LifeTemps : EnvSetFile("temp1_input", content)

Spec == Init /\ [][Next]_vars

\* ------------------------------------------------------------ one worker's ticks

Temp45 == File(<<"4", "5", "0", "0", "0", "\n">>)

TickTemps ==
  {Temp70, Temp45,
   File(<<"-", "5", "0", "0", "0", "\n">>),
   File(<<"-", "9", "9", "9", "\n">>),
   File(<<"1", "0", "0", "0", "0", "\n">>),
   File(<<"2", "0", "0", "0", "0", "\n">>),
   File(<<"3", "9", "9", "9", "9", "\n">>),
   File(<<"5", "0", "0", "0", "0">>),
   File(<<"6", "0", "0", "0", "0", "\n">>),
   File(<<"9", "9", "9", "9", "9", "\n">>),
   File(<<"1", "0", "0", "0", "0", "0", "\n">>),
   File(<<"1", "1", "0", "0", "0", "0", "\n">>)}

TickCurves ==
  {DefaultCurve, EmptyCurve, SinglePointCurve, DescendingCurve, ColdCurve, NegativeCurve}

\* HWMon::new(path, true, curve, None) whose start_fan_control succeeded
InitTick ==
  /\ files = [BaseFiles EXCEPT !["pwm1_enable"] = File(<<"1">>)]
  /\ fan_control = TRUE
  /\ fan_curve \in TickCurves
  /\ pc = [w \in Workers |-> IF w = 1 THEN "check" ELSE "none"]
  /\ last = Returned("new", "Ok")
  /\ repeated = FALSE
  /\ late = [w \in Workers |-> 0]
  /\ calls = NoCalls
  /\ snapshot = NoSnapshot
  /\ InitConfig

NextTick ==
  \/ \E curve \in TickCurves : set_fan_curve(curve)
  \/ WorkerStep(1)
  \/ \E content \in TickTemps : EnvSetFile("temp1_input", content)

SpecTick == InitTick /\ [][NextTick]_vars

\* ------------------------------------------------------------ the power cap

CapMax150 == File(<<"1", "5", "0", "0", "0", "0", "0", "0", "0", "\n">>)

CapMaxContents == {NoFile, Garbage, CapMax150, File(<<"9", "9", "9", "9", "9", "9">>)}

Caps == {-1, 0, 100, 150, 151, 200}

\* HWMon::new(path, false, curve, None) on a device with a power cap
InitPower ==
  /\ \E content \in CapMaxContents :
       files = [BaseFiles EXCEPT !["power1_cap_max"] = content,
                                 !["power1_cap"] = File(<<"1", "2", "0", "0", "0", "0", "0", "0", "0", "\n">>)]
  /\ fan_control = FALSE
  /\ fan_curve = DefaultCurve
  /\ pc = [w \in Workers |-> "none"]
  /\ last = Returned("new", "Ok")
  /\ repeated = FALSE
  /\ late = [w \in Workers |-> 0]
  /\ calls = NoCalls
  /\ snapshot = NoSnapshot
  /\ InitConfig

NextPower ==
  \/ \E cap \in Caps, wok \in BOOLEAN : set_power_cap(cap, wok)
  \/ \E g \in {"get_power_cap", "get_power_cap_max"} : CallGetter(g)
  \/ \E content \in CapMaxContents : EnvSetFile("power1_cap_max", content)

SpecPower == InitPower /\ [][NextPower]_vars

\* ------------------------------------------------------------ the sensors

SensorContents ==
  {NoFile, Garbage, CapMax150, Temp70,
   File(<<>>),
   File(<<"\n">>),
   File(<<" ", "4", "2", "\n">>),
   File(<<"+", "7", "5", "0", "0", "\n">>),
   File(<<"-", "2", "5", "0", "0", "0", "0", "0", "\n">>),
   File(<<"1", "2", " ", "3">>),
   File(<<"1", ".", "5", "\n">>)}

\* A monitor on a directory in which one sensor file reads as drawn.
InitSensors ==
  /\ \E g \in GetterNames, content \in SensorContents :
       files = [f \in FileNames |-> IF f = GetterFile(g) THEN content ELSE NoFile]
  /\ fan_control = FALSE
  /\ fan_curve = DefaultCurve
  /\ pc = [w \in Workers |-> "none"]
  /\ last = Returned("new", "Ok")
  /\ repeated = FALSE
  /\ late = [w \in Workers |-> 0]
  /\ calls = NoCalls
  /\ snapshot = NoSnapshot
  /\ InitConfig

NextSensors == \E g \in GetterNames : CallGetter(g)

SpecSensors == InitSensors /\ [][NextSensors]_vars

\* ------------------------------------------- the curve and its readers

CurveInputs == {DefaultCurve, DescendingCurve, ColdCurve}

\* HWMon::new(path, true, curve, None) whose start_fan_control succeeded
InitCurve ==
  /\ files = [BaseFiles EXCEPT !["pwm1_enable"] = File(<<"1">>)]
  /\ fan_control = TRUE
  /\ fan_curve \in CurveInputs
  /\ pc = [w \in Workers |-> IF w = 1 THEN "check" ELSE "none"]
  /\ last = Returned("new", "Ok")
  /\ repeated = FALSE
  /\ late = [w \in Workers |-> 0]
  /\ calls = NoCalls
  /\ snapshot = NoSnapshot
  /\ InitConfig

NextCurve ==
  \/ \E h \in Handlers, curve \in CurveInputs : SetCurveCall(h, curve)
  \/ \E h \in Handlers : SetCurveStep(h)
  \/ get_fan_control
  \/ WorkerStep(1)

SpecCurve == InitCurve /\ [][NextCurve]_vars

\* ------------------------------------------- concurrent start and stop

\* HWMon::new(path, false, curve, None), then handlers calling start and stop
NextRace ==
  \/ \E h \in Handlers : StartCall(h)
  \/ \E h \in Handlers : StopCall(h)
  \/ \E h \in Handlers : StartStopStep(h)
  \/ \E w \in Workers : WorkerStep(w)

SpecRace == Init /\ [][NextRace]_vars

\* ------------------------------------------------- curve and snapshot

\* A monitor with fan control on: curves are set, snapshots taken, and fan
\* control is stopped.
NextSnapshot ==
  \/ \E curve \in TickCurves : set_fan_curve(curve)
  \/ get_fan_control
  \/ \E wok \in BOOLEAN : stop_fan_control(wok)
  \/ WorkerStep(1)

SpecSnapshot == InitTick /\ [][NextSnapshot]_vars

\* ------------------------------------------------------ the duty range

Temp30 == File(<<"3", "0", "0", "0", "0", "\n">>)

DutyTemps == {Temp70, Temp30, File(<<"2", "0", "0", "0", "0", "\n">>)}

DutyCurves == {DefaultCurve, DescendingCurve, NegativeCurve}

\* HWMon::new(path, false, curve, None), then any calls of start_fan_control,
\* stop_fan_control and set_fan_curve while the temperature moves.
InitDuty ==
  /\ files = BaseFiles
  /\ fan_control = FALSE
  /\ fan_curve \in DutyCurves
  /\ pc = [w \in Workers |-> "none"]
  /\ last = Returned("new", "Ok")
  /\ repeated = FALSE
  /\ late = [w \in Workers |-> 0]
  /\ calls = NoCalls
  /\ snapshot = NoSnapshot
  /\ InitConfig

NextDuty ==
  \/ \E wok \in BOOLEAN : start_fan_control(wok)
  \/ \E wok \in BOOLEAN : stop_fan_control(wok)
  \/ \E curve \in DutyCurves : set_fan_curve(curve)
  \/ \E w \in Workers : WorkerStep(w)
  \/ \E content \in DutyTemps : EnvSetFile("temp1_input", content)

SpecDuty == InitDuty /\ [][NextDuty]_vars

\* ------------------------------------------------------ construction

\* HWMon::new, run by the thread that constructs the monitor.
\* if fan_control_enabled { mon.start_fan_control().unwrap() }; wok: whether
\* the write to pwm1_enable succeeds. The flag is clear in the new struct.
NewStart(h, wok) ==
  /\ calls[h].op = "new"
  /\ calls[h].at = "start"
  /\ IF ~calls[h].fan_control_enabled
     THEN /\ calls' = [calls EXCEPT ![h].at = "cap"]
          /\ UNCHANGED <<files, fan_control, pc, late, last, repeated>>
     ELSE /\ fan_control' = TRUE
          /\ late' = [w \in Workers |-> 0]
          /\ IF wok
             THEN /\ FreeSlots # {}
                  /\ files' = Written("pwm1_enable", <<"1">>)
                  /\ pc' = [pc EXCEPT ![SetMin(FreeSlots)] = "check"]
                  /\ calls' = [calls EXCEPT ![h].at = "cap"]
                  /\ UNCHANGED <<last, repeated>>
             ELSE /\ calls' = [calls EXCEPT ![h].at = "panicked"]
                  /\ Return("new", "panic")
                  /\ UNCHANGED <<files, pc>>
  /\ UNCHANGED <<fan_curve, snapshot, confVars>>

\* if let Some(cap) = power_cap { mon.set_power_cap(cap); } mon
\* wok: whether the write to power1_cap succeeds. The result of set_power_cap
\* is dropped; the panic of get_power_cap_max is not.
NewCap(h, wok) ==
  /\ calls[h].op = "new"
  /\ calls[h].at = "cap"
  /\ IF calls[h].power_cap # OptNone /\ get_power_cap_max.kind = "panic"
     THEN /\ calls' = [calls EXCEPT ![h].at = "panicked"]
          /\ Return("new", "panic")
          /\ UNCHANGED files
     ELSE /\ calls' = [calls EXCEPT ![h].at = "done"]
          /\ Return("new", "Ok")
          /\ IF /\ calls[h].power_cap # OptNone
                /\ get_power_cap_max.kind = "Some"
                /\ calls[h].power_cap[1] <= get_power_cap_max.val
                /\ wok
             THEN files' = Written("power1_cap", I64ToString(calls[h].power_cap[1] * 1000000))
             ELSE UNCHANGED files
  /\ UNCHANGED <<fan_control, fan_curve, pc, late, snapshot, confVars>>

PersistedCaps == {OptNone, OptSome(100), OptSome(200)}

Cap120 == File(<<"1", "2", "0", "0", "0", "0", "0", "0", "0", "\n">>)

\* The constructor has built the struct (flag clear, the curve given) and is
\* about to apply the persisted settings.
InitNew ==
  /\ \E temp \in {Temp70, NoFile}, max \in {CapMax150, NoFile, Garbage} :
       files = [BaseFiles EXCEPT !["temp1_input"] = temp,
                                 !["power1_cap_max"] = max,
                                 !["power1_cap"] = Cap120]
  /\ fan_control = FALSE
  /\ fan_curve = DefaultCurve
  /\ pc = [w \in Workers |-> "none"]
  /\ last = Returned("new", "entered")
  /\ repeated = FALSE
  /\ late = [w \in Workers |-> 0]
  /\ \E enabled \in BOOLEAN, cap \in PersistedCaps :
       calls = [NoCalls EXCEPT ![1] = [op |-> "new", at |-> "start",
                                       fan_control_enabled |-> enabled, power_cap |-> cap]]
  /\ snapshot = NoSnapshot
  /\ InitConfig

NextNew ==
  \/ \E wok \in BOOLEAN : NewStart(1, wok)
  \/ \E wok \in BOOLEAN : NewCap(1, wok)
  \/ \E w \in Workers : WorkerStep(w)

SpecNew == InitNew /\ [][NextNew]_vars

\* ------------------------------------------------------ all operations

FrameCaps == {100}

\* A monitor with a power cap of 120 W under a maximum of 150 W, on which
\* every operation that changes state is called in any order.
InitFrame ==
  /\ files = [BaseFiles EXCEPT !["power1_cap_max"] = CapMax150, !["power1_cap"] = Cap120]
  /\ fan_control = FALSE
  /\ fan_curve \in LifeCurves
  /\ pc = [w \in Workers |-> "none"]
  /\ last = Returned("new", "Ok")
  /\ repeated = FALSE
  /\ late = [w \in Workers |-> 0]
  /\ calls = NoCalls
  /\ snapshot = NoSnapshot
  /\ InitConfig

NextFrame ==
  \/ \E wok \in BOOLEAN : start_fan_control(wok)
  \/ \E wok \in BOOLEAN : stop_fan_control(wok)
  \/ \E curve \in LifeCurves : set_fan_curve(curve)
  \/ \E cap \in FrameCaps, wok \in BOOLEAN : set_power_cap(cap, wok)
  \/ \E w \in Workers : WorkerStep(w)

SpecFrame == InitFrame /\ [][NextFrame]_vars

\* ------------------------------------------------------------ the units

UnitContents ==
  {CapMax150, Temp70,
   File(<<"0", "\n">>),
   File(<<" ", "4", "2", "\n">>),
   File(<<"+", "7", "5", "0", "0", "\n">>),
   File(<<"1", "9", "9", "9", "9", "9", "9">>),
   File(<<"-", "2", "5", "0", "0", "\n">>),
   File(<<"-", "2", "5", "0", "0", "0", "0", "0", "\n">>)}

\* A monitor on a directory in which one sensor file holds an integer.
InitUnits ==
  /\ \E g \in GetterNames, content \in UnitContents :
       files = [f \in FileNames |-> IF f = GetterFile(g) THEN content ELSE NoFile]
  /\ fan_control = FALSE
  /\ fan_curve = DefaultCurve
  /\ pc = [w \in Workers |-> "none"]
  /\ last = Returned("new", "Ok")
  /\ repeated = FALSE
  /\ late = [w \in Workers |-> 0]
  /\ calls = NoCalls
  /\ snapshot = NoSnapshot
  /\ InitConfig

NextUnits ==
  \/ \E g \in GetterNames : CallGetter(g)
  \/ \E cap \in Caps, wok \in BOOLEAN : set_power_cap(cap, wok)

SpecUnits == InitUnits /\ [][NextUnits]_vars

\* ------------------------------------------------------ device identity

\* struct GpuIdentifier
GpuIdentifier(pci_id, card_model, gpu_model, path) ==
  [pci_id |-> pci_id, card_model |-> card_model, gpu_model |-> gpu_model, path |-> path]

\* Equality over all four fields, as a derived PartialEq would give.
eq_derived(self, other) ==
  /\ self.pci_id = other.pci_id
  /\ self.gpu_model = other.gpu_model
  /\ self.card_model = other.card_model
  /\ self.path = other.path

\* impl PartialEq for GpuIdentifier
eq(self, other) ==
  /\ self.pci_id = other.pci_id
  /\ self.gpu_model = other.gpu_model
  /\ self.card_model = other.card_model

PciIds == {"0000:01:00.0", "0000:0a:00.0"}

ModelNames == {OptNone, OptSome("Radeon RX 580"), OptSome("Vega 10")}

Paths == {"/sys/class/drm/card0", "/sys/class/drm/card1"}

GpuIdentifiers ==
  {GpuIdentifier(i, c, g, p) : i \in PciIds, c \in ModelNames, g \in ModelNames, p \in Paths}

\* a == b on two identifiers
Compare(a, b) ==
  /\ compared' = [done |-> TRUE, a |-> a, b |-> b, equal |-> eq(a, b)]
  /\ UNCHANGED <<monVars, config, config_file, loaded>>

NextIdentity == \E a \in GpuIdentifiers, b \in GpuIdentifiers : Compare(a, b)

SpecIdentity == Init /\ [][NextIdentity]_vars

\* ------------------------------------------------ the persisted Config

\* A JSON document as serde_json writes and reads it: a tree whose numbers
\* and map keys are the decimal text they have in the file.
JNull == [j |-> "null"]

JBool(b) == [j |-> "bool", b |-> b]

JNum(text) == [j |-> "number", text |-> text]

JStr(s) == [j |-> "string", s |-> s]

JArr(items) == [j |-> "array", items |-> items]

JObj(members) == [j |-> "object", members |-> members]

\* Serialize, as derived for the structs of config.rs
ser_i64(n) == JNum(I64ToString(n))

\* an f64 holding an integer is written with one decimal: 50.0
ser_f64(v) == JNum(I64ToString(v) \o <<".", "0">>)

ser_opt_i64(o) == IF o = OptNone THEN JNull ELSE ser_i64(o[1])

ser_opt_bool(o) == IF o = OptNone THEN JNull ELSE JBool(o[1])

ser_opt_string(o) == IF o = OptNone THEN JNull ELSE JStr(o[1])

\* BTreeMap<i64, f64>: an object keyed by the decimal text of each key
ser_fan_curve(curve) ==
  JObj([k \in {I64ToString(curve[i][1]) : i \in DOMAIN curve} |->
          ser_f64((CHOOSE e \in {curve[i] : i \in DOMAIN curve} : I64ToString(e[1]) = k)[2])])

\* The identifier written without its path.
ser_GpuIdentifier_skip_path(id) ==
  JObj([pci_id |-> JStr(id.pci_id),
        card_model |-> ser_opt_string(id.card_model),
        gpu_model |-> ser_opt_string(id.gpu_model)])

ser_GpuIdentifier(id) ==
  JObj([pci_id |-> JStr(id.pci_id),
        card_model |-> ser_opt_string(id.card_model),
        gpu_model |-> ser_opt_string(id.gpu_model),
        path |-> JStr(id.path)])

ser_GpuConfig(c) ==
  JObj([fan_control_enabled |-> JBool(c.fan_control_enabled),
        fan_curve |-> ser_fan_curve(c.fan_curve),
        power_cap |-> ser_i64(c.power_cap),
        power_profile |-> JStr(c.power_profile),
        gpu_max_clock |-> ser_i64(c.gpu_max_clock),
        gpu_max_voltage |-> ser_opt_i64(c.gpu_max_voltage),
        vram_max_clock |-> ser_i64(c.vram_max_clock)])

\* HashMap<u32, (GpuIdentifier, GpuConfig)>: an object of two-element arrays
ser_gpu_configs(m) ==
  JObj([k \in {I64ToString(i) : i \in DOMAIN m} |->
          LET i == CHOOSE i \in DOMAIN m : I64ToString(i) = k
          IN JArr(<<ser_GpuIdentifier(m[i][1]), ser_GpuConfig(m[i][2])>>)])

\* serde_json::to_string_pretty(self)
ser_Config(x) ==
  JObj([gpu_configs |-> ser_gpu_configs(x.gpu_configs),
        allow_online_update |-> ser_opt_bool(x.allow_online_update),
        config_path |-> JStr(x.config_path),
        group |-> JStr(x.group)])

\* Deserialize: a value, or the error serde_json reports
DeOk(v) == [ok |-> TRUE, val |-> v]

DeErr == [ok |-> FALSE]

de_i64(j) ==
  IF j.j # "number" THEN DeErr
  ELSE LET p == ParseI64(j.text) IN IF p.ok THEN DeOk(p.val) ELSE DeErr

\* a number with or without a fraction; the model's fractions are .0
de_f64(j) ==
  IF j.j # "number" THEN DeErr
  ELSE LET t == j.text
           whole == IF Len(t) > 2 /\ SubSeq(t, Len(t) - 1, Len(t)) = <<".", "0">>
                    THEN SubSeq(t, 1, Len(t) - 2) ELSE t
           p == ParseI64(whole)
       IN IF p.ok THEN DeOk(p.val) ELSE DeErr

de_bool(j) == IF j.j = "bool" THEN DeOk(j.b) ELSE DeErr

de_string(j) == IF j.j = "string" THEN DeOk(j.s) ELSE DeErr

de_opt_i64(j) ==
  IF j.j = "null" THEN DeOk(OptNone)
  ELSE IF de_i64(j).ok THEN DeOk(OptSome(de_i64(j).val)) ELSE DeErr

de_opt_bool(j) ==
  IF j.j = "null" THEN DeOk(OptNone)
  ELSE IF de_bool(j).ok THEN DeOk(OptSome(de_bool(j).val)) ELSE DeErr

de_opt_string(j) ==
  IF j.j = "null" THEN DeOk(OptNone)
  ELSE IF de_string(j).ok THEN DeOk(OptSome(de_string(j).val)) ELSE DeErr

\* A struct's object has its required fields; a missing Option field is None.
HasFields(j, names) == j.j = "object" /\ names \subseteq DOMAIN j.members

OptField(j, name) == IF name \in DOMAIN j.members THEN j.members[name] ELSE JNull

\* BTreeMap<i64, f64>: every key parses, every value is a number; the map
\* holds the entries in key order.
de_fan_curve(j) ==
  IF j.j # "object" THEN DeErr
  ELSE LET m == j.members
           keys == {ParseI64(k).val : k \in DOMAIN m}
           at(i) == m[CHOOSE k \in DOMAIN m : ParseI64(k).val = i]
           nth(n) == CHOOSE k \in keys : Cardinality({x \in keys : x < k}) = n - 1
       IN IF \E k \in DOMAIN m : ~ParseI64(k).ok \/ ~de_f64(m[k]).ok THEN DeErr
          ELSE DeOk([n \in 1..Cardinality(keys) |-> <<nth(n), de_f64(at(nth(n))).val>>])

de_GpuIdentifier(j) ==
  IF ~HasFields(j, {"pci_id", "path"}) THEN DeErr
  ELSE LET pci_id == de_string(j.members["pci_id"])
           card_model == de_opt_string(OptField(j, "card_model"))
           gpu_model == de_opt_string(OptField(j, "gpu_model"))
           path == de_string(j.members["path"])
       IN IF pci_id.ok /\ card_model.ok /\ gpu_model.ok /\ path.ok
          THEN DeOk(GpuIdentifier(pci_id.val, card_model.val, gpu_model.val, path.val))
          ELSE DeErr

de_GpuConfig(j) ==
  IF ~HasFields(j, {"fan_control_enabled", "fan_curve", "power_cap", "power_profile",
                    "gpu_max_clock", "vram_max_clock"})
  THEN DeErr
  ELSE LET fan_control_enabled == de_bool(j.members["fan_control_enabled"])
           curve == de_fan_curve(j.members["fan_curve"])
           power_cap == de_i64(j.members["power_cap"])
           power_profile == de_string(j.members["power_profile"])
           gpu_max_clock == de_i64(j.members["gpu_max_clock"])
           gpu_max_voltage == de_opt_i64(OptField(j, "gpu_max_voltage"))
           vram_max_clock == de_i64(j.members["vram_max_clock"])
       IN IF /\ fan_control_enabled.ok /\ curve.ok /\ power_cap.ok /\ power_profile.ok
             /\ gpu_max_clock.ok /\ gpu_max_voltage.ok /\ vram_max_clock.ok
          THEN DeOk([fan_control_enabled |-> fan_control_enabled.val,
                     fan_curve |-> curve.val,
                     power_cap |-> power_cap.val,
                     power_profile |-> power_profile.val,
                     gpu_max_clock |-> gpu_max_clock.val,
                     gpu_max_voltage |-> gpu_max_voltage.val,
                     vram_max_clock |-> vram_max_clock.val])
          ELSE DeErr

\* (GpuIdentifier, GpuConfig): an array of exactly two elements
de_pair(j) ==
  IF j.j # "array" \/ Len(j.items) # 2 THEN DeErr
  ELSE IF de_GpuIdentifier(j.items[1]).ok /\ de_GpuConfig(j.items[2]).ok
  THEN DeOk(<<de_GpuIdentifier(j.items[1]).val, de_GpuConfig(j.items[2]).val>>)
  ELSE DeErr

\* HashMap<u32, (GpuIdentifier, GpuConfig)>: every key parses as a u32
de_gpu_configs(j) ==
  IF j.j # "object" THEN DeErr
  ELSE LET m == j.members
           at(i) == m[CHOOSE k \in DOMAIN m : ParseI64(k).val = i]
       IN IF \E k \in DOMAIN m :
               ~ParseI64(k).ok \/ ParseI64(k).val < 0 \/ ~de_pair(m[k]).ok
          THEN DeErr
          ELSE DeOk([i \in {ParseI64(k).val : k \in DOMAIN m} |-> de_pair(at(i)).val])

\* serde_json::from_str::<Config>(&json)
de_Config(j) ==
  IF ~HasFields(j, {"gpu_configs", "config_path", "group"}) THEN DeErr
  ELSE LET gpu_configs == de_gpu_configs(j.members["gpu_configs"])
           allow_online_update == de_opt_bool(OptField(j, "allow_online_update"))
           config_path == de_string(j.members["config_path"])
           group == de_string(j.members["group"])
       IN IF gpu_configs.ok /\ allow_online_update.ok /\ config_path.ok /\ group.ok
          THEN DeOk([gpu_configs |-> gpu_configs.val,
                     allow_online_update |-> allow_online_update.val,
                     config_path |-> config_path.val,
                     group |-> group.val])
          ELSE DeErr

\* Config::save; wok: whether fs::write(config_path) succeeds
save(wok) ==
  /\ IF wok
     THEN /\ config_file' = File(ser_Config(config))
          /\ Return("save", "Ok")
     ELSE /\ Return("save", "IoError")
          /\ UNCHANGED config_file
  /\ UNCHANGED <<files, fan_control, fan_curve, pc, late, calls, snapshot>>
  /\ UNCHANGED <<config, loaded, compared>>

\* Config::read_from_file(config_path)
read_from_file ==
  /\ IF ~config_file.ok
     THEN /\ loaded' = [kind |-> "IoError"]
          /\ Return("read_from_file", "IoError")
     ELSE \E parsed \in {de_Config(config_file.text)} :
            IF parsed.ok
            THEN /\ loaded' = [kind |-> "Ok", config |-> parsed.val]
                 /\ Return("read_from_file", "Ok")
            ELSE /\ loaded' = [kind |-> "ParseError"]
                 /\ Return("read_from_file", "ParseError")
  /\ UNCHANGED <<files, fan_control, fan_curve, pc, late, calls, snapshot>>
  /\ UNCHANGED <<config, config_file, compared>>

\* GpuConfig::new()
GpuConfigNew ==
  [fan_control_enabled |-> FALSE, fan_curve |-> DefaultCurve, power_cap |-> -1,
   power_profile |-> "Auto", gpu_max_clock |-> 0, gpu_max_voltage |-> OptNone,
   vram_max_clock |-> 0]

TunedGpuConfig ==
  [fan_control_enabled |-> TRUE, fan_curve |-> ColdCurve, power_cap |-> 150,
   power_profile |-> "High", gpu_max_clock |-> 1340, gpu_max_voltage |-> OptSome(1150),
   vram_max_clock |-> 2000]

FlatGpuConfig == [GpuConfigNew EXCEPT !.fan_curve = EmptyCurve, !.power_profile = "Low"]

Devices ==
  {<<GpuIdentifier("0000:01:00.0", OptSome("Radeon RX 580"), OptSome("Vega 10"),
                   "/sys/class/drm/card0"), GpuConfigNew>>,
   <<GpuIdentifier("0000:0a:00.0", OptNone, OptNone, "/sys/class/drm/card1"),
     TunedGpuConfig>>,
   <<GpuIdentifier("0000:0a:00.0", OptNone, OptSome("Vega 10"), "/sys/class/drm/card1"),
     FlatGpuConfig>>}

DeviceIds == {0, 10}

Configs ==
  {[gpu_configs |-> m, allow_online_update |-> a, config_path |-> p, group |-> g] :
     m \in UNION {[ids -> Devices] : ids \in SUBSET DeviceIds},
     a \in {OptNone, OptSome(TRUE), OptSome(FALSE)},
     p \in {"/etc/lact.json"},
     g \in {"wheel", "video"}}

\* A daemon holding a Config, with no file at config_path yet
InitStore ==
  /\ files = BaseFiles
  /\ fan_control = FALSE
  /\ fan_curve = DefaultCurve
  /\ pc = [w \in Workers |-> "none"]
  /\ last = Returned("new", "Ok")
  /\ repeated = FALSE
  /\ late = [w \in Workers |-> 0]
  /\ calls = NoCalls
  /\ snapshot = NoSnapshot
  /\ config \in Configs
  /\ config_file = NoFile
  /\ loaded = NotLoaded
  /\ compared = NotCompared

NextStore ==
  \/ \E wok \in BOOLEAN : save(wok)
  \/ read_from_file

SpecStore == InitStore /\ [][NextStore]_vars

\* The scheduler runs every live worker thread, and its sleep returns.
FairSpec == Spec /\ \A w \in Workers : WF_vars(WorkerStep(w))

\* ================================================================ claims

\* A sensor the specification calls absent: the file cannot be read, or its
\* trimmed content is not an integer.
Unreadable(f) == ~files[f].ok \/ ~ParseI64(Trim(files[f].text)).ok

\* C1: a stop_fan_control followed by a start_fan_control never leads to a
\* state in which two loop workers of the device are alive at the same time.
C1_NeverTwoWorkers == Cardinality(AliveWorkers) <= 1

\* C2: start_fan_control is idempotent: with the enabled flag already set the
\* call returns success, writes no file and spawns no worker; and after two
\* successive successful start_fan_control calls exactly one worker is alive.
C2_StartIdempotent ==
  /\ [][\A wok \in BOOLEAN :
          (start_fan_control(wok) /\ fan_control) =>
            (last'.res = "Ok" /\ files' = files /\ pc' = pc /\ fan_control')]_vars
  /\ []((last = Returned("start_fan_control", "Ok") /\ repeated) =>
          Cardinality(AliveWorkers) = 1)

\* C3: a tick that cannot read the temperature while the enabled flag is set
\* writes nothing and leaves the worker alive to retry.
C3_UnreadableTempSkipsTick ==
  [][\A w \in Workers, wok \in BOOLEAN :
       (WorkerBody(w, wok) /\ fan_control /\ Unreadable("temp1_input")) =>
         (pc'[w] # "none" /\ files' = files)]_vars

\* The temperatures a curve has a point at, and the percentage at one of them.
Keys(curve) == {curve[i][1] : i \in 1..Len(curve)}

PercentAt(curve, t) == (CHOOSE e \in {curve[i] : i \in 1..Len(curve)} : e[1] = t)[2]

\* Adjacent curve points: two keys with no key between them.
Adjacent(curve, t_low, t_high) ==
  /\ t_low \in Keys(curve)
  /\ t_high \in Keys(curve)
  /\ t_low < t_high
  /\ ~\E k \in Keys(curve) : t_low < k /\ k < t_high

\* 255 * percent / 100 for percent = s_low + (s_high - s_low) * (temp - t_low)
\* / (t_high - t_low), as numerator and denominator.
DutyNum(curve, temp, t_low, t_high) ==
  255 * (PercentAt(curve, t_low) * (t_high - t_low)
         + (PercentAt(curve, t_high) - PercentAt(curve, t_low)) * (temp - t_low))

DutyDen(t_low, t_high) == 100 * (t_high - t_low)

\* C4 as amended: in a tick whose temperature lies in [t_low, t_high) of adjacent
\* curve points, the worker writes 255 * percent / 100 truncated toward zero to
\* pwm1; for the default curve and temperature 70 it writes 165.
C4_TickWritesTruncatedPwm ==
  [][\A w \in Workers : \A t_low, t_high \in Keys(fan_curve) :
       (/\ WorkerBody(w, TRUE)
        /\ ~Unreadable("temp1_input")
        /\ Adjacent(fan_curve, t_low, t_high)
        /\ t_low <= get_gpu_temp.val
        /\ get_gpu_temp.val < t_high) =>
         /\ files'["pwm1"].ok
         /\ ParseI64(files'["pwm1"].text).ok
         /\ LET pwm == ParseI64(files'["pwm1"].text).val
                num == DutyNum(fan_curve, get_gpu_temp.val, t_low, t_high)
                den == DutyDen(t_low, t_high)
            IN /\ num >= 0 => (pwm * den <= num /\ num < (pwm + 1) * den)
               /\ num < 0 => (num <= pwm * den /\ (pwm - 1) * den < num)
               /\ (fan_curve = DefaultCurve /\ get_gpu_temp.val = 70) => pwm = 165]_vars

\* C4 as claimed: the value written is round(255 * percent / 100); for the
\* default curve and temperature 70 it is 166.
C4_TickWritesRoundedPwm ==
  [][\A w \in Workers : \A t_low, t_high \in Keys(fan_curve) :
       (/\ WorkerBody(w, TRUE)
        /\ ~Unreadable("temp1_input")
        /\ Adjacent(fan_curve, t_low, t_high)
        /\ t_low <= get_gpu_temp.val
        /\ get_gpu_temp.val < t_high) =>
         /\ files'["pwm1"].ok
         /\ ParseI64(files'["pwm1"].text).ok
         /\ LET pwm == ParseI64(files'["pwm1"].text).val
                num == DutyNum(fan_curve, get_gpu_temp.val, t_low, t_high)
                den == DutyDen(t_low, t_high)
            IN /\ 2 * pwm * den - den <= 2 * num
               /\ 2 * num < 2 * pwm * den + den
               /\ (fan_curve = DefaultCurve /\ get_gpu_temp.val = 70) => pwm = 166]_vars

\* The worker has just written 165 at 70 degrees under the default curve.
C4_Witness ==
  /\ pc[1] = "drop"
  /\ fan_curve = DefaultCurve
  /\ files["temp1_input"] = Temp70
  /\ files["pwm1"] = File(<<"1", "6", "5">>)

\* C5: a tick whose temperature is below the first curve key or at or above the
\* last one, or whose curve has no point, writes no file: pwm1 keeps its value.
C5_NoWriteOutsideCurve ==
  [][\A w \in Workers, wok \in BOOLEAN :
       (/\ WorkerBody(w, wok)
        /\ ~Unreadable("temp1_input")
        /\ \/ Keys(fan_curve) = {}
           \/ get_gpu_temp.val < SetMin(Keys(fan_curve))
           \/ get_gpu_temp.val >= SetMax(Keys(fan_curve))) =>
         (files' = files /\ pc'[w] = "drop")]_vars

\* A tick at the last key of the default curve has ended and pwm1 is untouched.
C5_Witness ==
  /\ pc[1] = "drop"
  /\ fan_curve = DefaultCurve
  /\ get_gpu_temp = Some(100)
  /\ files["pwm1"] = BaseFiles["pwm1"]

\* C6: a start_fan_control with the flag clear whose mode switch fails returns
\* PermissionDenied, spawns no worker and leaves the flag clear; the flag becomes
\* set only in a step that switched the fan to manual mode.
C6_FailedStartLeavesFlagClear ==
  [][/\ (start_fan_control(FALSE) /\ ~fan_control) =>
          (last'.res = "PermissionDenied" /\ pc' = pc /\ ~fan_control')
     /\ (~fan_control /\ fan_control') =>
          (files'["pwm1_enable"] = File(<<"1">>) /\ last'.res = "Ok")]_vars

\* C7: stop_fan_control returns PermissionDenied and leaves the flag as it was
\* when the write of pwm1_enable fails; it returns success with the flag clear
\* when the write succeeds.
C7_StopResult ==
  [][\A wok \in BOOLEAN :
       stop_fan_control(wok) =>
         IF wok
         THEN /\ last' = Returned("stop_fan_control", "Ok")
              /\ ~fan_control'
              /\ files'["pwm1_enable"] = File(<<"2">>)
         ELSE /\ last' = Returned("stop_fan_control", "PermissionDenied")
              /\ fan_control' = fan_control
              /\ files' = files]_vars

\* A stop whose write failed while the loop runs: the flag is still set.
C7_Witness ==
  /\ last = Returned("stop_fan_control", "PermissionDenied")
  /\ fan_control
  /\ files["pwm1_enable"] = File(<<"1">>)
  /\ AliveWorkers # {}

\* C8: once the flag is clear every worker runs at most one more tick, and
\* unless start_fan_control sets the flag again all workers eventually exit.
C8_StopIsEventual ==
  /\ [](\A w \in Workers : late[w] <= 1)
  /\ (~fan_control ~> (AliveWorkers = {} \/ fan_control))

\* A stop has succeeded and a worker has since run its one remaining tick.
C8_Witness ==
  /\ last = Returned("stop_fan_control", "Ok")
  /\ ~fan_control
  /\ \E w \in Workers : late[w] = 1 /\ pc[w] = "drop"

\* C9: set_power_cap returns Unsupported when the maximum is absent and
\* InvalidValue when the target exceeds it, writing nothing in both cases;
\* otherwise it writes target * 10^6 to power1_cap and returns success, or
\* PermissionDenied when the write is rejected.
C9_SetPowerCapContract ==
  [][\A cap \in Caps, wok \in BOOLEAN :
       set_power_cap(cap, wok) =>
         IF Unreadable("power1_cap_max")
         THEN last'.res = "Unsupported" /\ files' = files
         ELSE IF cap * 1000000 >= ParseI64(Trim(files["power1_cap_max"].text)).val + 1000000
         THEN last'.res = "InvalidValue" /\ files' = files
         ELSE IF wok
         THEN /\ last'.res = "Ok"
              /\ files' = [files EXCEPT !["power1_cap"] = File(I64ToString(cap * 1000000))]
         ELSE last'.res = "PermissionDenied" /\ files' = files]_vars

\* C10: a sensor read whose control file is missing or does not parse as an
\* integer returns absent and never aborts its caller.
C10_SensorReadsNeverRaise ==
  \A g \in GetterNames : (last.op = g /\ Unreadable(GetterFile(g))) => last.res = "None"

\* The integer a readable control file holds.
RawOf(f) == ParseI64(Trim(files[f].text)).val

\* The unit divisor the specification gives each sensor read.
UnitOf(g) ==
  CASE g \in {"get_gpu_freq", "get_mem_freq"} -> 1000000
    [] g \in {"get_power_cap", "get_power_cap_max", "get_power_avg"} -> 1000000
    [] g = "get_gpu_temp" -> 1000
    [] g \in {"get_fan_speed", "get_fan_max_speed", "get_voltage"} -> 1

\* v is the integer quotient r / d, truncated toward zero.
IsQuotient(v, r, d) ==
  IF r >= 0 THEN v * d <= r /\ r < (v + 1) * d
  ELSE r <= v * d /\ (v - 1) * d < r

\* C11: a sensor read of a readable file holding the integer r returns the
\* integer quotient of r by its unit (10^6 for clocks and power, 1000 for the
\* temperature, 1 for fan speeds and voltage); with power1_cap_max holding
\* 150000000 get_power_cap_max is 150 and set_power_cap(200) is InvalidValue.
C11_UnitConversions ==
  /\ [](\A g \in GetterNames :
          (last.op = g /\ ~Unreadable(GetterFile(g))) =>
            (last.res = "Some" /\ IsQuotient(last.val, RawOf(GetterFile(g)), UnitOf(g))))
  /\ []((last.op = "get_power_cap_max" /\ files["power1_cap_max"] = CapMax150) =>
          last.val = 150)
  /\ [][\A wok \in BOOLEAN :
          (set_power_cap(200, wok) /\ files["power1_cap_max"] = CapMax150) =>
            (last'.res = "InvalidValue" /\ files' = files)]_vars

\* set_power_cap(200) has been refused on a device whose maximum reads 150.
C11_Witness ==
  /\ last = Returned("set_power_cap", "InvalidValue")
  /\ files["power1_cap_max"] = CapMax150
  /\ get_power_cap_max = Some(150)

\* C12: a tick and a get_fan_control that run while set_fan_curve replaces
\* the curve see a complete curve, the one before or the one after the
\* replacement: never an empty curve nor a part or a mix of curves.
C12_CurveReplacedAtomically ==
  /\ [](snapshot.taken => snapshot.curve \in CurveInputs)
  /\ [][\A w \in Workers, wok \in BOOLEAN :
          WorkerBody(w, wok) => fan_curve \in CurveInputs]_vars

\* get_fan_control has returned the old curve while a set_fan_curve of another
\* curve waits for the lock a ticking worker holds.
C12_Witness ==
  /\ last.op = "get_fan_control"
  /\ snapshot.taken
  /\ pc[1] = "drop"
  /\ \E h \in Handlers :
       calls[h].at = "write" /\ calls[h].curve # snapshot.curve

\* C13: concurrent start_fan_control and stop_fan_control calls leave the
\* state some sequential order of them leaves. In every sequential order the
\* flag is cleared only by a stop that has just written automatic mode, and
\* manual mode is written only by a start that has set the flag: when no call
\* is in progress, a clear flag never stands with manual mode in pwm1_enable.
C13_StartStopLinearized ==
  (calls = NoCalls /\ ~fan_control) => files["pwm1_enable"] # File(<<"1">>)

\* C14: two identifiers compare equal exactly when their pci_id, card_model
\* and gpu_model are equal; the path never affects the result.
C14_IdentityIgnoresPath ==
  compared.done =>
    /\ compared.equal <=> (/\ compared.a.pci_id = compared.b.pci_id
                           /\ compared.a.card_model = compared.b.card_model
                           /\ compared.a.gpu_model = compared.b.gpu_model)
    /\ \A p \in Paths :
         compared.equal = eq([compared.a EXCEPT !.path = p], compared.b)

\* Two identifiers that differ only in their path have compared equal.
C14_Witness ==
  /\ compared.done
  /\ compared.equal
  /\ compared.a.path # compared.b.path
  /\ compared.a.card_model # OptNone

\* C15: a Config saved with save() and loaded with read_from_file from the
\* file written is the Config that was saved, equal in every field: the
\* devices with their identifiers (path included) and settings,
\* allow_online_update, group and config_path.
C15_ConfigRoundTrip ==
  [][(read_from_file /\ config_file.ok) =>
       /\ loaded'.kind = "Ok"
       /\ loaded'.config.gpu_configs = config.gpu_configs
       /\ loaded'.config.allow_online_update = config.allow_online_update
       /\ loaded'.config.group = config.group
       /\ loaded'.config.config_path = config.config_path
       /\ loaded'.config = config]_vars

\* A Config of two devices, one with negative curve keys and a two-digit
\* index, has been saved and loaded.
C15_Witness ==
  /\ last = Returned("read_from_file", "Ok")
  /\ loaded.kind = "Ok"
  /\ DOMAIN config.gpu_configs = DeviceIds
  /\ config.gpu_configs[10][2] = TunedGpuConfig
  /\ config.allow_online_update = OptSome(FALSE)
  /\ loaded.config = config

\* The entry of the loop that matches a temperature, and the speed_percent the
\* loop body computes there.
TickIndex(curve, temp) ==
  CHOOSE i \in 1..Len(curve) :
    Matches(curve, temp, i) /\ \A k \in 1..(i - 1) : ~Matches(curve, temp, k)

TickPercent(curve, temp) ==
  LET low == curve[TickIndex(curve, temp)]
      high == Nth(Range(curve, low[1]), 1).entry
  IN SpeedPercent(low[2], high[2], SpeedRatio(temp, low[1], high[1]))

NonDecreasing(curve) == \A i \in 1..(Len(curve) - 1) : curve[i][2] <= curve[i + 1][2]

\* C16: under a curve whose percentages do not decrease as its keys grow, the
\* percent the loop computes does not decrease from any temperature in
\* [first key, last key) to the next one, hence between any two of them.
C16_PercentMonotone ==
  (Len(fan_curve) >= 2 /\ NonDecreasing(fan_curve)) =>
    \A t \in SetMin(Keys(fan_curve))..(SetMax(Keys(fan_curve)) - 2) :
      /\ \E a \in {TickPercent(fan_curve, t)}, b \in {TickPercent(fan_curve, t + 1)} :
           a.num * b.den <= b.num * a.den
      /\ Scan(fan_curve, t).pwm <= Scan(fan_curve, t + 1).pwm

\* The worker has ticked on the rising first segment of a non-decreasing curve
\* (26.25 percent at -5 degrees) and written its duty value.
C16_Witness ==
  /\ pc[1] = "drop"
  /\ fan_curve = ColdCurve
  /\ get_gpu_temp = Some(-5)
  /\ files["pwm1"] = File(<<"6", "6">>)

\* C17: set_fan_curve returns normally for every curve, whatever its shape,
\* and leaves exactly that curve as the live one; nothing else changes the
\* live curve; and get_fan_control returns the live curve and the flag as they
\* are: after set_fan_curve(c) it returns c and the current flag.
C17_SetThenGetCurve ==
  /\ [][\A curve \in TickCurves :
          set_fan_curve(curve) =>
            (last' = Returned("set_fan_curve", "Ok") /\ fan_curve' = curve)]_vars
  /\ [][fan_curve' # fan_curve => \E curve \in TickCurves : set_fan_curve(curve)]_vars
  /\ []((last.op = "get_fan_control") =>
          (snapshot.taken /\ snapshot.curve = fan_curve /\ snapshot.enabled = fan_control))

\* After the default curve was replaced by a descending one and fan control
\* stopped, get_fan_control has returned the descending curve and a clear flag.
C17_Witness ==
  /\ last.op = "get_fan_control"
  /\ snapshot = [taken |-> TRUE, enabled |-> FALSE, curve |-> DescendingCurve]

\* C18: a sleeping worker holds no guard on the curve: a set_fan_curve that
\* waits for the write lock while every live worker sleeps can take it at once,
\* and a set_fan_curve that holds it can run to its end whatever the workers do.
C18_NoLockAcrossSleep ==
  /\ \A w \in Workers : pc[w] = "sleep" => w \notin Readers
  /\ \A h \in Handlers :
       (/\ calls[h].op = "set_fan_curve"
        /\ calls[h].at = "write"
        /\ ~WriteLocked
        /\ AliveWorkers # {}
        /\ \A w \in AliveWorkers : pc[w] = "sleep") => ENABLED SetCurveWrite(h)
  /\ \A h \in Handlers :
       calls[h].at \in {"clear", "insert"} => ENABLED SetCurveStep(h)

\* A set_fan_curve has filled the map to its last entry while the worker slept.
C18_Witness ==
  /\ pc[1] = "sleep"
  /\ \E h \in Handlers :
       /\ calls[h].at = "insert"
       /\ calls[h].n = Len(calls[h].curve)
       /\ fan_curve = calls[h].curve

\* C19: the worker holds the curve lock only while it scans the curve: in a
\* tick that writes a duty value to pwm1 the worker does not hold its read
\* guard during the write.
C19_LockOnlyDuringScan ==
  [][\A w \in Workers, wok \in BOOLEAN :
       (WorkerBody(w, wok) /\ files'["pwm1"] # files["pwm1"]) => w \notin Readers]_vars

\* C20: when HWMon::new returns, with fan_control_enabled the flag is set,
\* pwm1_enable holds manual mode and exactly one worker is alive; without it
\* no worker is alive and pwm1_enable is as it was; and a persisted power cap
\* not above the maximum stands in power1_cap, multiplied by 10^6.
C20_ConstructedAsPersisted ==
  [][\A wok \in BOOLEAN :
       (NewCap(1, wok) /\ calls'[1].at = "done") =>
         /\ calls[1].fan_control_enabled =>
              /\ fan_control'
              /\ files'["pwm1_enable"] = File(<<"1">>)
              /\ Cardinality({w \in Workers : pc'[w] # "none"}) = 1
         /\ ~calls[1].fan_control_enabled =>
              /\ \A w \in Workers : pc'[w] = "none"
              /\ files'["pwm1_enable"] = BaseFiles["pwm1_enable"]
         /\ (/\ calls[1].power_cap # OptNone
             /\ get_power_cap_max.kind = "Some"
             /\ calls[1].power_cap[1] <= get_power_cap_max.val) =>
              files'["power1_cap"] = File(I64ToString(calls[1].power_cap[1] * 1000000))]_vars

\* C21: in every state with no start_fan_control call in progress, the flag
\* that get_fan_control reports is set only if a loop worker is alive.
C21_FlagImpliesWorker == fan_control => AliveWorkers # {}

PercentsInRange(curve) == \A i \in 1..Len(curve) : 0 <= curve[i][2] /\ curve[i][2] <= 100

DutyText == {File(I64ToString(v)) : v \in 0..255}

\* C22: while every percentage of the live curve lies in 0..100, a tick that
\* writes pwm1 writes the decimal text of an integer in 0..255, at every
\* temperature and after any calls of set_fan_curve, start and stop.
C22_DutyWithinByte ==
  [][\A w \in Workers, wok \in BOOLEAN :
       (WorkerBody(w, wok) /\ PercentsInRange(fan_curve) /\ files'["pwm1"] # files["pwm1"]) =>
         files'["pwm1"] \in DutyText]_vars

\* Both ends of the range are written: 255 at the first key of the descending
\* curve (100 percent) and 0 on the flat start of the default curve, each by a
\* worker started after a stop.
C22_Witness ==
  /\ PercentsInRange(fan_curve)
  /\ files["pwm1"] \in {File(I64ToString(255)), File(I64ToString(0))}
  /\ files["pwm1_enable"] = File(<<"1">>)
  /\ \E w \in Workers : pc[w] = "drop"

\* C23: set_fan_curve changes the live curve only (the flag, every file and
\* the workers stay); start_fan_control and stop_fan_control leave the live
\* curve and power1_cap alone; set_power_cap leaves the flag, the curve, the
\* workers and every file but power1_cap alone. A step of an operation is
\* one that records the operation's return in last.
C23_Frames ==
  [][/\ (/\ last'.op = "set_fan_curve"
         /\ \E curve \in LifeCurves : set_fan_curve(curve)) =>
          /\ fan_control' = fan_control
          /\ files' = files
          /\ pc' = pc
     /\ (/\ last'.op \in {"start_fan_control", "stop_fan_control"}
         /\ \E wok \in BOOLEAN : start_fan_control(wok) \/ stop_fan_control(wok)) =>
          /\ fan_curve' = fan_curve
          /\ files'["power1_cap"] = files["power1_cap"]
     /\ (/\ last'.op = "set_power_cap"
         /\ late' = late
         /\ \E cap \in FrameCaps, wok \in BOOLEAN : set_power_cap(cap, wok)) =>
          /\ fan_control' = fan_control
          /\ fan_curve' = fan_curve
          /\ pc' = pc
          /\ \A f \in FileNames \ {"power1_cap"} : files'[f] = files[f]]_vars

\* set_fan_curve has just returned on a monitor whose fan control was started,
\* whose worker has written a duty value and whose power cap was set to 100 W.
C23_Witness ==
  /\ last.op = "set_fan_curve"
  /\ fan_control
  /\ AliveWorkers # {}
  /\ files["pwm1_enable"] = File(<<"1">>)
  /\ files["pwm1"] # BaseFiles["pwm1"]
  /\ files["power1_cap"] = File(I64ToString(100 * 1000000))

====
